---- MODULE Spec2Model ----
(***************************************************************************)
(* Model of the bounded worker pool (utils/worker.go) and of the           *)
(* multi-threaded downloader (utils/downloader.go) of re-asmr-spider.      *)
(*                                                                         *)
(* Spec     : the pool. A caller enqueues tasks on TaskQueue, the          *)
(*            dispatcher goroutine admits them, every admitted task runs   *)
(*            the executor closure of WorkerPool.Start. Download is one    *)
(*            step whose result is any result Download can return.         *)
(* SpecTask : one task with any FinalPath / OnFailure, same actions.       *)
(* SpecInit : initDownload alone, applied to every probe response.         *)
(* SpecDl   : one task whose Download runs step by step (probe, partition, *)
(*            segment goroutines, single-stream path).                     *)
(* SpecBlocks : the concurrent downloadBlocks calls of one Download, with  *)
(*            reads of every size.                                         *)
(* SpecPool : the pool with tasks that have nothing to relocate;           *)
(*            SpecPoolFair adds fair scheduling of its goroutines.         *)
(***************************************************************************)
EXTENDS Integers, Sequences, FiniteSets, TLC

\* ------------------------------------------------------------------ bounds
\* Number of tasks the caller enqueues.
NumTasks == 2
\* Largest WorkerCount handed to NewWorkerPool.
MaxLimit == 2

Tasks == 1..NumTasks

\* ------------------------------------------------- cache usage (int64 bytes)
\* bytesUsed is an int64; the thresholds are 18 GiB and 15 GiB.  A byte count
\* is kept as whole GiB plus the remaining bytes so that every value stays in
\* the checker's integer range while comparisons stay exact to the byte.
GiB == 1024 * 1024 * 1024

Bytes(g, r) == [gib |-> g, rem |-> r]

UsageGt(a, b) == \/ a.gib > b.gib
                 \/ a.gib = b.gib /\ a.rem > b.rem

UsageLt(a, b) == UsageGt(b, a)

RclonePauseThreshold == Bytes(18, 0)

RcloneResumeThreshold == Bytes(15, 0)

\* Readings the cache monitor may report: both thresholds and their neighbours.
Usages == { Bytes(14, GiB - 1), Bytes(15, 0), Bytes(18, 0), Bytes(18, 1) }

\* getRcloneCacheUsage returns (usage, nil) or (0, err).
Reading(u) == [usage |-> u, err |-> FALSE]
ProbeErr == [usage |-> Bytes(0, 0), err |-> TRUE]
ProbeResults == {Reading(u) : u \in Usages} \cup {ProbeErr}

\* No reading yet (history only).
NoReading == [usage |-> Bytes(0, 0), err |-> TRUE]

\* ------------------------------------------------------------- task fields
Nil == "nil"

Url(t) == <<"url", t>>
SavePath(t) == <<"tmp", t>>
FileName(t) == <<"name", t>>
\* NewDownloader: FullPath = path + "/" + name
FullPath(t) == SavePath(t) \o <<"/">> \o FileName(t)

\* FinalPath is "", the staging path itself, or a path on the mount.
FinalKinds == {"empty", "same", "distinct"}
FinalPathOf(t, k) == CASE k = "empty" -> <<>>
                       [] k = "same" -> FullPath(t)
                       [] OTHER -> <<"mnt", t, "/">> \o FileName(t)

\* Errors Download can return.
DownloadErrors == {"transport", "status", "fs", "read", "torn"}

\* Outcomes of the copy-and-delete relocation, in the order the code tests them.
RelocOutcomes == {"mkdir_err", "open_err", "create_err", "copy_err", "ok"}

\* -------------------------------------------------------------- downloader
\* Largest ThreadCount given to initDownload on its own.
MaxThreads == 4
\* Largest ThreadCount of a Download that runs its segment goroutines.
MaxDlThreads == 2
\* Turns of the partition loop the model follows.
MaxBlocks == 8
\* Thread counts (ThreadCount is the caller's maxThread, an int) for which
\* contentLength / ThreadCount is 10 or less for the lengths above.
ManyThreads == {95326, 1048577}
\* Reads of one segment that deliver only part of what is still missing.
MaxPartialReads == 1

ErrUnsupportedMultiThreading == "unsupported multi-threading"

\* if contentLength > 1024*1024
SmallFileLimit == 1024 * 1024

\* The slack subtracted from every block: (contentLength / ThreadCount) - 10
BlockSlack == 10

\* Variant: the threshold test admits a file of exactly 1 MiB.
BlockSizeInclusive(contentLength, threadCount) ==
    IF contentLength >= SmallFileLimit
      THEN (contentLength \div threadCount) - BlockSlack
      ELSE contentLength

\* blockSize := func() int64 {...}()
BlockSize(contentLength, threadCount) ==
    IF contentLength > SmallFileLimit
      THEN (contentLength \div threadCount) - BlockSlack
      ELSE contentLength

\* Variant: the block end is not pulled back by one byte.
FullBlockOverlap(tmp, blockSize) ==
    [BeginOffset |-> tmp, EndOffset |-> tmp + blockSize, DownloadedSize |-> 0]

\* &BlockMetaData{BeginOffset: tmp, EndOffset: tmp + blockSize - 1}
FullBlock(tmp, blockSize) ==
    [BeginOffset |-> tmp, EndOffset |-> tmp + blockSize - 1, DownloadedSize |-> 0]

\* Variant: the last block starts on the last byte of the block before it.
LastBlockOverlap(tmp, contentLength) ==
    [BeginOffset |-> tmp - 1, EndOffset |-> contentLength - 1, DownloadedSize |-> 0]

\* &BlockMetaData{BeginOffset: tmp, EndOffset: contentLength - 1}
LastBlock(tmp, contentLength) ==
    [BeginOffset |-> tmp, EndOffset |-> contentLength - 1, DownloadedSize |-> 0]

\* for tmp+blockSize < contentLength
MoreBlocks(tmp, blockSize, contentLength) == tmp + blockSize < contentLength

\* Probe responses: status 0 stands for a transport error of Client.Do.
\* Content-Length -1 is what net/http reports for an unknown length.
ContentLengths == {-1, 0, 1000, 1048576, 1048577, 1048599, 3000000, 10000000}
DlLengths == {1000, 1048577}
Responses(lens) ==
    [status : {200, 206}, len : lens] \cup [status : {0, 204, 404}, len : {0}]

\* var lastErr error: an interface value is two words, the dynamic type and
\* the data pointer; the nil interface has both nil.
NilErr == [typ |-> Nil, data |-> Nil]

\* The error an interface value holds: a value whose two words come from two
\* different assignments is none of the errors that were assigned.
Torn == "torn"
ErrorValue(w) == IF w.typ = w.data THEN w.typ ELSE Torn

\* NewDownloader: Blocks nil, nothing started.
NewDl(threadCount) ==
    [ThreadCount |-> threadCount, dpc |-> "idle", status |-> 0,
     contentLength |-> 0, blockSize |-> 0, tmp |-> 0, Blocks |-> <<>>,
     seg |-> <<>>, lastErr |-> NilErr, initErr |-> Nil, copies |-> 0]

\* ---- data of the rate limiter ----

\* time.Second, in nanoseconds (the unit of time.Duration).
Second == 1000000000

\* SpeedLimit = 50 * 1024 * 1024, in bytes per second.
SpeedLimit == 52428800

\* Values the package variable SpeedLimit is given.
SpeedLimits == {-1, 0, 1000000, SpeedLimit}

\* Byte counts n a Read returns, and the nanoseconds the Read took.
ReadCounts == {0, 1, 4096}
ReadTimes == {0, 19, 100000}

\* time.Sleep pauses for at least the duration asked for.
Oversleep == {0, 1}

RECURSIVE Gcd(_, _)
Gcd(a, b) == IF b = 0 THEN a ELSE Gcd(b, a % b)

\* Variant: the quotient is scaled to milliseconds.
ExpectedDurationMillis(n, limit) ==
    LET g == Gcd(1000, limit)
    IN  (n * (1000 \div g)) \div (limit \div g)

\* time.Duration(float64(n) / float64(SpeedLimit) * float64(time.Second)):
\* the conversion to Duration drops the fraction of a nanosecond.  The
\* quotient is taken on the reduced fraction, which keeps the product small.
ExpectedDuration(n, limit) ==
    LET g == Gcd(Second, limit)
    IN  (n * (Second \div g)) \div (limit \div g)

\* if n > 0 && SpeedLimit > 0
Throttled(n, limit) == n > 0 /\ limit > 0

\* One stream between two reads.
NoRead == [pc |-> "idle", n |-> 0, elapsed |-> 0, sleep |-> 0, total |-> 0,
           slept |-> FALSE]

\* The concurrent streams: the segment goroutines of one Download.
Streams == 1..MaxDlThreads

NoReads(limit) == [SpeedLimit |-> limit, rd |-> [s \in Streams |-> NoRead]]

\* ---- data of the retry ledger ----

\* Largest MaxRetry the caller configures.
MaxRetries == 1

\* What downloadFileInternal does with a file: it sends a downloader to the
\* pool, or returns early because the final file is there and the size probe
\* fails or agrees, or because the temporary directory cannot be made.
InternalOutcomes == {"enqueue", "exists", "mkdir_err"}

\* NewASMRClient(maxTask, maxThread, maxRetry), with the downloaders it has
\* sent and not yet seen end (inPool), the number of sends per file (sent),
\* the files DownloadFile was called for, and the locals of a running
\* RetryFailedTasks; below is the number of copied records under the retry
\* limit and requeued the number of downloaders the call has sent.
NewASMRClient(maxRetry) ==
    [MaxRetry |-> maxRetry, FailedTasks |-> <<>>, inPool |-> {},
     sent |-> [f \in Tasks |-> 0], called |-> {}, rpc |-> "idle",
     tasks |-> <<>>, permanentlyFailed |-> <<>>, retriedCount |-> 0,
     below |-> 0, requeued |-> 0, ret |-> "none"]

VARIABLES
    Limit,      \* WorkerPool.Limit
    Count,      \* WorkerPool.Count
    wg,         \* counter of the embedded sync.WaitGroup
    TaskQueue,  \* buffered channel, capacity Limit
    total,      \* number of tasks the caller submits
    enqueued,   \* number of tasks the caller has sent so far
    disp,       \* dispatcher goroutine: [pc, t]
    pc,         \* per task: position of its executor goroutine
    FinalPath,  \* per task: MultiThreadDownloader.FinalPath
    OnFailure,  \* per task: TRUE iff the OnFailure hook is set
    dlErr,      \* per task: value returned by Download
    files,      \* set of paths that exist on disk
    hookCalls,  \* per task: arguments of every OnFailure invocation
    gate,       \* per task: what the backpressure loop of the running
                \* executor has observed (its locals; gone when it returns)
    reloc,      \* per task: outcome of the relocation attempt
    dl,         \* per task: the MultiThreadDownloader while Download runs
    ac,         \* the ASMRClient: failed tasks, retry limit, retry loop
    lim         \* SpeedLimit and, per stream, the read being throttled

vars == <<Limit, Count, wg, TaskQueue, total, enqueued, disp, pc, FinalPath,
          OnFailure, dlErr, files, hookCalls, gate, reloc, dl, ac, lim>>

\* The client and the limiter, which no step of the pool or of a download
\* writes.
sideVars == <<ac, lim>>
poolVars == <<Limit, Count, wg, TaskQueue, total, enqueued, disp, sideVars>>
taskCfg == <<FinalPath, OnFailure, dl>>

NoGate == [first |-> NoReading, last |-> NoReading, slept |-> FALSE,
           lastWasErr |-> FALSE]

\* NewWorkerPool(WorkerCount): Count 0, empty queue of capacity WorkerCount.
InitPool ==
    /\ Limit \in 1..MaxLimit
    /\ ac = NewASMRClient(0)
    /\ lim = NoReads(SpeedLimit)
    /\ Count = 0
    /\ wg = 0
    /\ TaskQueue = <<>>
    /\ enqueued = 0
    /\ disp = [pc |-> "recv", t |-> 0]
    /\ pc = [t \in Tasks |-> "new"]
    /\ dlErr = [t \in Tasks |-> Nil]
    /\ files = {}
    /\ hookCalls = [t \in Tasks |-> <<>>]
    /\ gate = [t \in Tasks |-> NoGate]
    /\ reloc = [t \in Tasks |-> Nil]

\* The tasks downloadFileInternal builds: FinalPath on the mount, hook set.
Init ==
    /\ InitPool
    /\ total = NumTasks
    /\ FinalPath = [t \in Tasks |-> FinalPathOf(t, "distinct")]
    /\ OnFailure = [t \in Tasks |-> TRUE]
    /\ dl = [t \in Tasks |-> NewDl(MaxThreads)]

\* One task handed to the pool, with any FinalPath and with or without a hook.
InitTask ==
    /\ InitPool
    /\ Limit = MaxLimit
    /\ total = 1
    /\ FinalPath \in {[t \in Tasks |-> FinalPathOf(t, k)] : k \in FinalKinds}
    /\ OnFailure \in {[t \in Tasks |-> h] : h \in BOOLEAN}
    /\ dl = [t \in Tasks |-> NewDl(MaxThreads)]

\* ------------------------------------------------------------------ caller
\* ac.WorkerPool.TaskQueue <- downloader   (blocks while the channel is full)
Enqueue(t) ==
    /\ t = enqueued + 1
    /\ t <= total
    /\ Len(TaskQueue) < Limit
    /\ TaskQueue' = Append(TaskQueue, t)
    /\ enqueued' = t
    /\ pc' = [pc EXCEPT ![t] = "queued"]
    /\ UNCHANGED <<sideVars, Limit, Count, wg, total, disp, taskCfg, dlErr, files,
                   hookCalls, gate, reloc>>

\* -------------------------------------------------------------- dispatcher
\* Variant: the dispatcher takes the most recently sent task.
DispRecvNewest ==
    /\ disp.pc = "recv"
    /\ TaskQueue # <<>>
    /\ disp' = [pc |-> "lock", t |-> TaskQueue[Len(TaskQueue)]]
    /\ TaskQueue' = SubSeq(TaskQueue, 1, Len(TaskQueue) - 1)
    /\ pc' = [pc EXCEPT ![TaskQueue[Len(TaskQueue)]] = "held"]
    /\ UNCHANGED <<sideVars, Limit, Count, wg, total, enqueued, taskCfg, dlErr, files,
                   hookCalls, gate, reloc>>

\* for t := range wp.TaskQueue
DispRecv ==
    /\ disp.pc = "recv"
    /\ TaskQueue # <<>>
    /\ disp' = [pc |-> "lock", t |-> Head(TaskQueue)]
    /\ TaskQueue' = Tail(TaskQueue)
    /\ pc' = [pc EXCEPT ![Head(TaskQueue)] = "held"]
    /\ UNCHANGED <<sideVars, Limit, Count, wg, total, enqueued, taskCfg, dlErr, files,
                   hookCalls, gate, reloc>>

\* The admission test of the dispatcher: for wp.Count >= wp.Limit { Wait }
\* Variant: the dispatcher waits only once Count has passed Limit.
MustWaitAbove == Count > Limit

MustWait == Count >= Limit

\* Lock; for wp.Count >= wp.Limit { wp.cond.Wait() }; wp.Add(1); Unlock
DispAdmit ==
    /\ disp.pc = "lock"
    /\ IF MustWait
         THEN /\ disp' = [disp EXCEPT !.pc = "wait"]
              /\ UNCHANGED <<wg, pc>>
         ELSE /\ disp' = [disp EXCEPT !.pc = "spawn"]
              /\ wg' = wg + 1
              /\ pc' = [pc EXCEPT ![disp.t] = "admitted"]
    /\ UNCHANGED <<sideVars, Limit, Count, TaskQueue, total, enqueued, taskCfg,
                   dlErr, files, hookCalls, gate, reloc>>

\* go func(t *MultiThreadDownloader) {...}(t)
DispSpawn ==
    /\ disp.pc = "spawn"
    /\ disp' = [pc |-> "recv", t |-> 0]
    /\ pc' = [pc EXCEPT ![disp.t] = "started"]
    /\ UNCHANGED <<sideVars, Limit, Count, wg, TaskQueue, total, enqueued, taskCfg, dlErr,
                   files, hookCalls, gate, reloc>>

\* ---------------------------------------------------------------- executor
\* Variant: the executor starts without wp.Count++.
CountIncForgets(t) ==
    /\ pc[t] = "started"
    /\ pc' = [pc EXCEPT ![t] = "download"]
    /\ UNCHANGED <<sideVars, Limit, Count, wg, TaskQueue, total, enqueued, disp, taskCfg,
                   dlErr, files, hookCalls, gate, reloc>>

\* Lock; wp.Count++; Unlock
CountInc(t) ==
    /\ pc[t] = "started"
    /\ Count' = Count + 1
    /\ pc' = [pc EXCEPT ![t] = "download"]
    /\ UNCHANGED <<sideVars, Limit, wg, TaskQueue, total, enqueued, disp, taskCfg, dlErr,
                   files, hookCalls, gate, reloc>>

\* err := t.Download(), as one step.  A nil result leaves the staging file on
\* disk; a failed download may or may not have created it.
Download(t, e, created) ==
    /\ pc[t] = "download"
    /\ e = Nil => created
    /\ dlErr' = [dlErr EXCEPT ![t] = e]
    /\ files' = IF created THEN files \cup {FullPath(t)} ELSE files
    /\ pc' = [pc EXCEPT ![t] = "returned"]
    /\ UNCHANGED <<poolVars, taskCfg, hookCalls, gate, reloc>>

\* Variant: the error branch forgets os.Remove(t.FullPath).
OnErrorKeepsFile(t) ==
    /\ pc[t] = "returned"
    /\ dlErr[t] # Nil
    /\ hookCalls' = [hookCalls EXCEPT ![t] =
           IF OnFailure[t]
             THEN Append(@, <<Url(t), SavePath(t), FileName(t), dlErr[t]>>)
             ELSE @]
    /\ pc' = [pc EXCEPT ![t] = "exit"]
    /\ UNCHANGED <<poolVars, taskCfg, dlErr, files, gate, reloc>>

\* if err != nil { os.Remove(t.FullPath); if t.OnFailure != nil {...}; return }
OnError(t) ==
    /\ pc[t] = "returned"
    /\ dlErr[t] # Nil
    /\ files' = files \ {FullPath(t)}
    /\ hookCalls' = [hookCalls EXCEPT ![t] =
           IF OnFailure[t]
             THEN Append(@, <<Url(t), SavePath(t), FileName(t), dlErr[t]>>)
             ELSE @]
    /\ pc' = [pc EXCEPT ![t] = "exit"]
    /\ UNCHANGED <<poolVars, taskCfg, dlErr, gate, reloc>>

\* Variant: only the empty FinalPath skips the move.
NeedsMoveIfSet(t) == FinalPath[t] # <<>>

\* if t.FinalPath != "" && t.FinalPath != t.FullPath
NeedsMove(t) == FinalPath[t] # <<>> /\ FinalPath[t] # FullPath(t)

\* Variant: the test of FinalPath is reached whatever Download returned.
CheckFinalPathAnyResult(t) ==
    /\ pc[t] = "returned"
    /\ pc' = [pc EXCEPT ![t] = IF NeedsMove(t) THEN "gate" ELSE "exit"]
    /\ UNCHANGED <<poolVars, taskCfg, dlErr, files, hookCalls, gate, reloc>>

CheckFinalPath(t) ==
    /\ pc[t] = "returned"
    /\ dlErr[t] = Nil
    /\ pc' = [pc EXCEPT ![t] = IF NeedsMove(t) THEN "gate" ELSE "exit"]
    /\ UNCHANGED <<poolVars, taskCfg, dlErr, files, hookCalls, gate, reloc>>

\* Variant: a reading equal to the pause threshold already pauses.
OverPauseInclusive(r) == ~UsageLt(r.usage, RclonePauseThreshold)

\* if usage > RclonePauseThreshold
OverPause(r) == UsageGt(r.usage, RclonePauseThreshold)

\* if newUsage < RcloneResumeThreshold
UnderResume(r) == UsageLt(r.usage, RcloneResumeThreshold)

\* What the loop has seen once the probe returned r.
Observe(g, r) ==
    [first |-> IF g.first.err /\ ~r.err THEN r ELSE g.first,
     last |-> IF ~r.err THEN r ELSE g.last,
     slept |-> g.slept,
     lastWasErr |-> r.err]

\* Variant: a failed probe ends the task instead of being retried.
GateProbeGivesUp(t, r) ==
    /\ pc[t] = "gate"
    /\ gate' = [gate EXCEPT ![t] = Observe(@, r)]
    /\ pc' = [pc EXCEPT ![t] =
           IF r.err THEN "exit"
           ELSE IF OverPause(r) THEN "wait_sleep"
           ELSE "relocate"]
    /\ UNCHANGED <<poolVars, taskCfg, dlErr, files, hookCalls, reloc>>

\* Outer loop: usage, err := getRcloneCacheUsage(); on error go and sleep;
\* above the pause threshold enter the waiting loop; otherwise break.
GateProbe(t, r) ==
    /\ pc[t] = "gate"
    /\ gate' = [gate EXCEPT ![t] = Observe(@, r)]
    /\ pc' = [pc EXCEPT ![t] =
           IF r.err THEN "gate_sleep"
           ELSE IF OverPause(r) THEN "wait_sleep"
           ELSE "relocate"]
    /\ UNCHANGED <<poolVars, taskCfg, dlErr, files, hookCalls, reloc>>

\* time.Sleep(10 * time.Second) of either loop; the next statement is a probe.
Sleep(t) ==
    /\ pc[t] \in {"gate_sleep", "wait_sleep"}
    /\ gate' = [gate EXCEPT ![t].slept = @ \/ ~gate[t].first.err]
    /\ pc' = [pc EXCEPT ![t] = IF pc[t] = "gate_sleep" THEN "gate" ELSE "wait"]
    /\ UNCHANGED <<poolVars, taskCfg, dlErr, files, hookCalls, reloc>>

\* Waiting loop: newUsage, err := getRcloneCacheUsage(); break only on
\* err == nil && newUsage < RcloneResumeThreshold, else sleep again.
WaitProbe(t, r) ==
    /\ pc[t] = "wait"
    /\ gate' = [gate EXCEPT ![t] = Observe(@, r)]
    /\ pc' = [pc EXCEPT ![t] =
           IF ~r.err /\ UnderResume(r) THEN "relocate" ELSE "wait_sleep"]
    /\ UNCHANGED <<poolVars, taskCfg, dlErr, files, hookCalls, reloc>>

\* Variant: os.Remove(t.FullPath) runs whatever io.Copy returned.
FilesAfterMoveAlwaysRemoves(t, o) ==
    CASE o \in {"mkdir_err", "open_err", "create_err"} -> files
      [] OTHER -> (files \cup {FinalPath[t]}) \ {FullPath(t)}

\* Files on disk after MkdirAll / Open / Create / io.Copy / Remove ended as o.
FilesAfterMove(t, o) ==
    CASE o \in {"mkdir_err", "open_err", "create_err"} -> files
      [] o = "copy_err" -> files \cup {FinalPath[t]}
      [] OTHER -> (files \cup {FinalPath[t]}) \ {FullPath(t)}

Relocate(t, o) ==
    /\ pc[t] = "relocate"
    /\ files' = FilesAfterMove(t, o)
    /\ reloc' = [reloc EXCEPT ![t] = o]
    /\ pc' = [pc EXCEPT ![t] = "exit"]
    /\ UNCHANGED <<poolVars, taskCfg, dlErr, hookCalls, gate>>

\* Variant: the deferred function forgets wp.cond.Broadcast().
ReleaseNoBroadcast(t) ==
    /\ pc[t] = "exit"
    /\ Count' = Count - 1
    /\ wg' = wg - 1
    /\ pc' = [pc EXCEPT ![t] = "done"]
    /\ gate' = [gate EXCEPT ![t] = NoGate]
    /\ UNCHANGED <<sideVars, Limit, TaskQueue, total, enqueued, disp, taskCfg, dlErr,
                   files, hookCalls, reloc>>

\* defer: Lock; wp.Count--; wp.Done(); wp.cond.Broadcast(); Unlock
Release(t) ==
    /\ pc[t] = "exit"
    /\ Count' = Count - 1
    /\ wg' = wg - 1
    /\ disp' = IF disp.pc = "wait" THEN [disp EXCEPT !.pc = "lock"] ELSE disp
    /\ pc' = [pc EXCEPT ![t] = "done"]
    /\ gate' = [gate EXCEPT ![t] = NoGate]
    /\ UNCHANGED <<sideVars, Limit, TaskQueue, total, enqueued, taskCfg, dlErr, files,
                   hookCalls, reloc>>

\* =============================================================== Download
execVars == <<poolVars, FinalPath, OnFailure, hookCalls, gate, reloc>>

\* return err / return nil of Download: the executor goes on with err.
Returns(t, e) ==
    /\ dlErr' = [dlErr EXCEPT ![t] = e]
    /\ pc' = [pc EXCEPT ![t] = "returned"]

\* if m.ThreadCount < 2 { return m.singleThreadDownload() }
\* if err := m.initDownload(); ...
DlBegin(t) ==
    /\ pc[t] = "download"
    /\ dl[t].dpc = "idle"
    /\ dl' = [dl EXCEPT ![t].dpc =
           IF dl[t].ThreadCount < 2 THEN "single" ELSE "probe"]
    /\ UNCHANGED <<execVars, pc, dlErr, files>>

\* initDownload up to the point where it copies the stream, starts the
\* partition loop or returns an error (which Download returns unchanged).
InitProbe(t, resp) ==
    /\ dl[t].dpc = "probe"
    /\ LET m == dl[t]
           bs == BlockSize(resp.len, m.ThreadCount)
       IN  CASE resp.status = 0 ->
                  /\ dl' = [dl EXCEPT ![t] =
                         [m EXCEPT !.dpc = "ret", !.initErr = "transport"]]
                  /\ Returns(t, "transport")
             [] resp.status # 0 /\ (resp.status < 200 \/ resp.status >= 300) ->
                  /\ dl' = [dl EXCEPT ![t] =
                         [m EXCEPT !.dpc = "ret", !.status = resp.status,
                                   !.initErr = "status"]]
                  /\ Returns(t, "status")
             [] resp.status = 200 ->
                  /\ dl' = [dl EXCEPT ![t] =
                         [m EXCEPT !.dpc = "copy", !.status = 200]]
                  /\ UNCHANGED <<pc, dlErr>>
             [] resp.status = 206 ->
                  /\ dl' = [dl EXCEPT ![t] =
                         [m EXCEPT !.dpc = IF bs = resp.len THEN "copy" ELSE "loop",
                                   !.status = 206,
                                   !.contentLength = resp.len,
                                   !.blockSize = bs,
                                   !.tmp = 0]]
                  /\ UNCHANGED <<pc, dlErr>>
             [] OTHER ->
                  /\ dl' = [dl EXCEPT ![t] =
                         [m EXCEPT !.dpc = "ret", !.status = resp.status,
                                   !.initErr = "status"]]
                  /\ Returns(t, "status")
    /\ UNCHANGED <<execVars, files>>

\* copyStream: OpenFile(O_CREATE|O_TRUNC), io.CopyBuffer, then
\* return ErrUnsupportedMultiThreading; Download turns that signal into
\* singleThreadDownload and returns every other error.
CopyStream(t, o) ==
    /\ dl[t].dpc = "copy"
    /\ LET m == dl[t]
       IN  CASE o = "fs" ->
                  /\ dl' = [dl EXCEPT ![t] =
                         [m EXCEPT !.dpc = "ret", !.initErr = "fs"]]
                  /\ files' = files
                  /\ Returns(t, "fs")
             [] o = "read" ->
                  /\ dl' = [dl EXCEPT ![t] =
                         [m EXCEPT !.dpc = "ret", !.initErr = "read",
                                   !.copies = @ + 1]]
                  /\ files' = files \cup {FullPath(t)}
                  /\ Returns(t, "read")
             [] OTHER ->
                  /\ dl' = [dl EXCEPT ![t] =
                         [m EXCEPT !.dpc = "single",
                                   !.initErr = ErrUnsupportedMultiThreading,
                                   !.copies = @ + 1]]
                  /\ files' = files \cup {FullPath(t)}
                  /\ UNCHANGED <<pc, dlErr>>
    /\ UNCHANGED execVars

\* Indices of the blocks a partition of this model can hold.
SegIds == 1..(MaxThreads + MaxDlThreads)

\* go func(b *BlockMetaData) {...}(m.Blocks[i]): a goroutine for block b.
\* lo and hi are the range the block had when the goroutine was started, seek
\* the offset its file handle was positioned at (-1: not yet), wrote the
\* number of bytes it has written through that handle.
NewSeg(b) ==
    [pc |-> "start", err |-> Nil, reads |-> 0, lo |-> b.BeginOffset,
     hi |-> b.EndOffset, seek |-> -1, wrote |-> 0]

\* One turn of the partition loop; when the loop ends the last block is
\* appended, initDownload returns nil and Download starts one goroutine per
\* block.  The loop itself has no bound; the model follows it for MaxBlocks
\* turns.
PartitionStep(t) ==
    /\ dl[t].dpc = "loop"
    /\ LET m == dl[t]
       IN  IF MoreBlocks(m.tmp, m.blockSize, m.contentLength)
             THEN /\ Len(m.Blocks) < MaxBlocks
                  /\ dl' = [dl EXCEPT ![t] =
                         [m EXCEPT !.Blocks = Append(@, FullBlock(m.tmp, m.blockSize)),
                                   !.tmp = m.tmp + m.blockSize]]
             ELSE LET B == Append(m.Blocks, LastBlock(m.tmp, m.contentLength))
                  IN  dl' = [dl EXCEPT ![t] =
                          [m EXCEPT !.Blocks = B,
                                    !.dpc = "segments",
                                    !.seg = [i \in 1..Len(B) |-> NewSeg(B[i])]]]
    /\ UNCHANGED <<execVars, pc, dlErr, files>>

\* singleThreadDownload: OpenFile(O_CREATE|O_TRUNC), Client.Do, io.CopyBuffer.
SingleThreadDownload(t, o) ==
    /\ dl[t].dpc = "single"
    /\ dl' = [dl EXCEPT ![t] =
           [@ EXCEPT !.dpc = "ret",
                     !.copies = IF o \in {"read", "ok"} THEN @ + 1 ELSE @]]
    /\ files' = IF o = "fs" THEN files ELSE files \cup {FullPath(t)}
    /\ Returns(t, IF o = "ok" THEN Nil ELSE o)
    /\ UNCHANGED execVars

\* downloadBlocks of block i returns e: with nil the goroutine ends
\* (wg.Done()), with an error it goes on to assign lastErr.
SegEnd(m, i, b, e) ==
    [m EXCEPT !.Blocks[i] = b,
              !.seg[i] = [@ EXCEPT !.pc = IF e = Nil THEN "done" ELSE "failed",
                                   !.err = e,
                                   !.reads = 0]]

\* lastErr = err, first word.  The segment goroutines assign lastErr without
\* any synchronisation, so the two word stores of one assignment can be
\* separated by the stores of another.
LastErrTyp(t, i) ==
    /\ dl[t].dpc = "segments"
    /\ i \in DOMAIN dl[t].seg
    /\ dl[t].seg[i].pc = "failed"
    /\ dl' = [dl EXCEPT ![t].lastErr.typ = dl[t].seg[i].err,
                         ![t].seg[i].pc = "assign"]
    /\ UNCHANGED <<execVars, pc, dlErr, files>>

\* lastErr = err, second word; then the deferred wg.Done().
LastErrData(t, i) ==
    /\ dl[t].dpc = "segments"
    /\ i \in DOMAIN dl[t].seg
    /\ dl[t].seg[i].pc = "assign"
    /\ dl' = [dl EXCEPT ![t].lastErr.data = dl[t].seg[i].err,
                         ![t].seg[i].pc = "done"]
    /\ UNCHANGED <<execVars, pc, dlErr, files>>

\* downloadBlocks up to the read loop: OpenFile (O_CREATE as fallback), Seek,
\* Client.Do, status check.
SegStart(t, i, o) ==
    /\ dl[t].dpc = "segments"
    /\ i \in DOMAIN dl[t].seg
    /\ dl[t].seg[i].pc = "start"
    /\ LET m == [dl[t] EXCEPT !.seg[i].seek =
                    IF o = "fs" THEN @ ELSE dl[t].Blocks[i].BeginOffset]
       IN  dl' = [dl EXCEPT ![t] =
                  IF o = "ok" THEN [m EXCEPT !.seg[i].pc = "read"]
                  ELSE SegEnd(m, i, m.Blocks[i], o)]
    /\ files' = IF o = "fs" THEN files ELSE files \cup {FullPath(t)}
    /\ UNCHANGED <<execVars, pc, dlErr>>

\* remaining := block.EndOffset + 1 - block.BeginOffset
Remaining(b) == b.EndOffset + 1 - b.BeginOffset

\* Variant: the chunk is written whole, without clipping to remaining.
BytesToWriteUnclipped(b, n) == n

\* bytesToWrite := int64(n); if bytesToWrite > remaining { = remaining }
BytesToWrite(b, n) == IF n > Remaining(b) THEN Remaining(b) ELSE n

\* block.BeginOffset += bytesToWrite; block.DownloadedSize += bytesToWrite
Advance(b, k) ==
    [b EXCEPT !.BeginOffset = @ + k, !.DownloadedSize = @ + k]

\* One turn of the read loop for Read = (n, e) and a write that fails iff w:
\* the block afterwards, whether downloadBlocks returned, with what, and how
\* many bytes writer.Write accepted.
ReadStep(b, n, e, w) ==
    IF n > 0 /\ w
      THEN [block |-> b, done |-> TRUE, err |-> "fs", wrote |-> 0]
      ELSE LET k == IF n > 0 THEN BytesToWrite(b, n) ELSE 0
               b2 == IF n > 0 THEN Advance(b, k) ELSE b
               r == [block |-> b2, done |-> TRUE, err |-> Nil, wrote |-> k]
           IN  IF n > 0 /\ b2.BeginOffset > b2.EndOffset
                 THEN r
               ELSE IF e = "EOF"
                 THEN r
               ELSE IF e # Nil
                 THEN [r EXCEPT !.err = e]
               ELSE [r EXCEPT !.done = FALSE]

\* What one Read may deliver: nothing, a part of what is still missing, all
\* of it, or one byte more than was asked for.
ReadKinds == {"none", "part", "all", "over"}

ReadSize(b, k) ==
    CASE k = "none" -> 0
      [] k = "part" -> Remaining(b) \div 2
      [] k = "all" -> Remaining(b)
      [] OTHER -> Remaining(b) + 1

ReadErrors == {Nil, "EOF", "read"}

\* n, readErr := resp.Body.Read(buffer) and the rest of the loop body.
SegRead(t, i, k, e, w) ==
    /\ dl[t].dpc = "segments"
    /\ i \in DOMAIN dl[t].seg
    /\ dl[t].seg[i].pc = "read"
    /\ LET m == dl[t]
           b == m.Blocks[i]
           n == ReadSize(b, k)
           r == ReadStep(b, n, e, w)
           m2 == [m EXCEPT !.seg[i].wrote = @ + r.wrote]
       IN  /\ k = "part" => (m.seg[i].reads < MaxPartialReads /\ n > 0)
           /\ n > 0 \/ e # Nil
           /\ n = 0 => ~w
           /\ dl' = [dl EXCEPT ![t] =
                  IF r.done THEN SegEnd(m2, i, r.block, r.err)
                  ELSE [m2 EXCEPT !.Blocks[i] = r.block, !.seg[i].reads = @ + 1]]
    /\ UNCHANGED <<execVars, pc, dlErr, files>>

\* Variant: Wait returns as soon as one segment goroutine has ended.
DlJoinFirst(t) ==
    /\ dl[t].dpc = "segments"
    /\ \E i \in DOMAIN dl[t].seg : dl[t].seg[i].pc = "done"
    /\ dl' = [dl EXCEPT ![t].dpc = "ret"]
    /\ Returns(t, ErrorValue(dl[t].lastErr))
    /\ UNCHANGED <<execVars, files>>

\* wg.Wait(); return lastErr
DlJoin(t) ==
    /\ dl[t].dpc = "segments"
    /\ \A i \in DOMAIN dl[t].seg : dl[t].seg[i].pc = "done"
    /\ dl' = [dl EXCEPT ![t].dpc = "ret"]
    /\ Returns(t, ErrorValue(dl[t].lastErr))
    /\ UNCHANGED <<execVars, files>>

\* ---- rate limiter: RateLimitedReader.Read and the loop of downloadBlocks ----

\* Every variable but lim.
notLim == <<Limit, Count, wg, TaskQueue, total, enqueued, disp, pc, FinalPath,
            OnFailure, dlErr, files, hookCalls, gate, reloc, dl, ac>>

\* start := time.Now(); n, err := Read(p); the limit test; expectedDuration;
\* elapsed := time.Since(start); the stream goes to sleep when
\* elapsed < expectedDuration and hands the bytes on otherwise.
LimRead(s, n, e) ==
    /\ lim.rd[s].pc = "idle"
    /\ LET expected == ExpectedDuration(n, lim.SpeedLimit)
       IN  IF Throttled(n, lim.SpeedLimit) /\ e < expected
             THEN lim' = [lim EXCEPT !.rd[s] =
                      [pc |-> "sleep", n |-> n, elapsed |-> e,
                       sleep |-> expected - e, total |-> 0, slept |-> FALSE]]
             ELSE lim' = [lim EXCEPT !.rd[s] =
                      [pc |-> "handed", n |-> n, elapsed |-> e, sleep |-> 0,
                       total |-> e, slept |-> FALSE]]
    /\ UNCHANGED notLim

\* time.Sleep(expectedDuration - elapsed) returns, x nanoseconds late.
LimWake(s, x) ==
    /\ lim.rd[s].pc = "sleep"
    /\ lim' = [lim EXCEPT !.rd[s] =
                  [@ EXCEPT !.pc = "handed",
                            !.total = lim.rd[s].elapsed + lim.rd[s].sleep + x,
                            !.slept = TRUE]]
    /\ UNCHANGED notLim

\* return n, err: the stream is ready for its next read.
LimReturn(s) ==
    /\ lim.rd[s].pc = "handed"
    /\ lim' = [lim EXCEPT !.rd[s] = NoRead]
    /\ UNCHANGED notLim

\* ---- retry ledger: ASMRClient ----

\* Every variable but ac.
notAc == <<Limit, Count, wg, TaskQueue, total, enqueued, disp, pc, FinalPath,
           OnFailure, dlErr, files, hookCalls, gate, reloc, dl, lim>>

\* downloadFileInternal(url, dirPath, fileName, retryCount): the client after
\* the call.
downloadFileInternal(a, f, retryCount, o) ==
    IF o = "enqueue"
      THEN [a EXCEPT !.inPool = @ \cup {[FileName |-> f, RetryCount |-> retryCount]},
                     !.sent[f] = @ + 1]
      ELSE a

\* AddFailedTask(url, dirPath, fileName, retryCount)
AddFailedTask(a, f, retryCount) ==
    [a EXCEPT !.FailedTasks = Append(@, [FileName |-> f, RetryCount |-> retryCount])]

\* Variant: a record stays retryable until RetryCount has passed MaxRetry.
PermanentlyFailedAbove(task, maxRetry) == task.RetryCount > maxRetry

\* if task.RetryCount >= ac.MaxRetry
PermanentlyFailed(task, maxRetry) == task.RetryCount >= maxRetry

\* DownloadFile(url, dirPath, fileName), called by EnsureDir once per track.
DownloadFile(f, o) ==
    /\ ac.rpc = "idle"
    /\ f \notin ac.called
    /\ ac' = [downloadFileInternal(ac, f, 0, o) EXCEPT !.called = @ \cup {f}]
    /\ UNCHANGED notAc

\* The pool runs a downloader and Download returns nil.
DownloadSucceeds(d) ==
    /\ d \in ac.inPool
    /\ ac' = [ac EXCEPT !.inPool = @ \ {d}]
    /\ UNCHANGED notAc

\* The pool runs a downloader, Download returns an error and the pool calls
\* the OnFailure wrapper, which records the failure (ac.FailedTasks is never
\* nil).
OnFailureHook(d) ==
    /\ d \in ac.inPool
    /\ ac' = [AddFailedTask(ac, d.FileName, d.RetryCount) EXCEPT !.inPool = @ \ {d}]
    /\ UNCHANGED notAc

\* The number of records of FailedTasks with RetryCount < MaxRetry.
UnderLimit(a) ==
    Cardinality({i \in DOMAIN a.FailedTasks :
                    a.FailedTasks[i].RetryCount < a.MaxRetry})

\* RetryFailedTasks, up to the loop: with an empty list it returns false;
\* otherwise it copies the list and empties it.
RetryBegin ==
    /\ ac.rpc = "idle"
    /\ IF ac.FailedTasks = <<>>
         THEN ac' = [ac EXCEPT !.retriedCount = 0, !.below = 0, !.requeued = 0,
                               !.ret = "false"]
         ELSE ac' = [ac EXCEPT !.rpc = "loop", !.tasks = ac.FailedTasks,
                               !.FailedTasks = <<>>, !.permanentlyFailed = <<>>,
                               !.retriedCount = 0, !.below = UnderLimit(ac),
                               !.requeued = 0, !.ret = "none"]
    /\ UNCHANGED notAc

\* One turn of the loop over the copied records.
RetryStep(o) ==
    /\ ac.rpc = "loop"
    /\ ac.tasks # <<>>
    /\ LET task == Head(ac.tasks)
           rest == [ac EXCEPT !.tasks = Tail(@)]
       IN  IF PermanentlyFailed(task, ac.MaxRetry)
             THEN ac' = [rest EXCEPT !.permanentlyFailed = Append(@, task)]
             ELSE ac' = [downloadFileInternal(rest, task.FileName,
                                              task.RetryCount + 1, o)
                            EXCEPT !.retriedCount = @ + 1,
                                   !.requeued = IF o = "enqueue" THEN @ + 1 ELSE @]
    /\ UNCHANGED notAc

\* After the loop: the permanently failed records go back to the list and
\* the call returns retriedCount > 0.
RetryEnd ==
    /\ ac.rpc = "loop"
    /\ ac.tasks = <<>>
    /\ ac' = [ac EXCEPT !.rpc = "idle",
                        !.FailedTasks = @ \o ac.permanentlyFailed,
                        !.permanentlyFailed = <<>>,
                        !.ret = IF ac.retriedCount > 0 THEN "true" ELSE "false"]
    /\ UNCHANGED notAc

Next ==
    \/ \E t \in Tasks : Enqueue(t)
    \/ DispRecv
    \/ DispAdmit
    \/ DispSpawn
    \/ \E t \in Tasks : CountInc(t)
    \/ \E t \in Tasks, e \in DownloadErrors \cup {Nil}, c \in BOOLEAN :
           Download(t, e, c)
    \/ \E t \in Tasks : OnError(t)
    \/ \E t \in Tasks : CheckFinalPath(t)
    \/ \E t \in Tasks, r \in ProbeResults : GateProbe(t, r)
    \/ \E t \in Tasks : Sleep(t)
    \/ \E t \in Tasks, r \in ProbeResults : WaitProbe(t, r)
    \/ \E t \in Tasks, o \in RelocOutcomes : Relocate(t, o)
    \/ \E t \in Tasks : Release(t)

Spec == Init /\ [][Next]_vars

SpecTask == InitTask /\ [][Next]_vars

\* initDownload has just been called by the Download of the first task.
InitInit ==
    /\ Limit = MaxLimit
    /\ ac = NewASMRClient(0)
    /\ lim = NoReads(SpeedLimit)
    /\ Count = 1
    /\ wg = 1
    /\ TaskQueue = <<>>
    /\ total = 1
    /\ enqueued = 1
    /\ disp = [pc |-> "recv", t |-> 0]
    /\ pc = [t \in Tasks |-> IF t = 1 THEN "download" ELSE "new"]
    /\ FinalPath = [t \in Tasks |-> <<>>]
    /\ OnFailure = [t \in Tasks |-> TRUE]
    /\ dlErr = [t \in Tasks |-> Nil]
    /\ files = {}
    /\ hookCalls = [t \in Tasks |-> <<>>]
    /\ gate = [t \in Tasks |-> NoGate]
    /\ reloc = [t \in Tasks |-> Nil]
    /\ \E tc \in 2..MaxThreads :
           dl = [t \in Tasks |->
                   IF t = 1 THEN [NewDl(tc) EXCEPT !.dpc = "probe"] ELSE NewDl(tc)]

NextInit ==
    \/ \E t \in Tasks, resp \in Responses(ContentLengths) : InitProbe(t, resp)
    \/ \E t \in Tasks, o \in {"fs", "read", "ok"} : CopyStream(t, o)
    \/ \E t \in Tasks : PartitionStep(t)

SpecInit == InitInit /\ [][NextInit]_vars

\* initDownload has just been called, with a small or a very large
\* ThreadCount.
InitPart ==
    /\ Limit = MaxLimit
    /\ ac = NewASMRClient(0)
    /\ lim = NoReads(SpeedLimit)
    /\ Count = 1
    /\ wg = 1
    /\ TaskQueue = <<>>
    /\ total = 1
    /\ enqueued = 1
    /\ disp = [pc |-> "recv", t |-> 0]
    /\ pc = [t \in Tasks |-> IF t = 1 THEN "download" ELSE "new"]
    /\ FinalPath = [t \in Tasks |-> <<>>]
    /\ OnFailure = [t \in Tasks |-> TRUE]
    /\ dlErr = [t \in Tasks |-> Nil]
    /\ files = {}
    /\ hookCalls = [t \in Tasks |-> <<>>]
    /\ gate = [t \in Tasks |-> NoGate]
    /\ reloc = [t \in Tasks |-> Nil]
    /\ \E tc \in (2..MaxThreads) \cup ManyThreads :
           dl = [t \in Tasks |->
                   IF t = 1 THEN [NewDl(tc) EXCEPT !.dpc = "probe"] ELSE NewDl(tc)]

SpecPart == InitPart /\ [][NextInit]_vars

\* One task as NewDownloader builds it (FinalPath empty), hook set.
InitDl ==
    /\ InitPool
    /\ Limit = MaxLimit
    /\ total = 1
    /\ FinalPath = [t \in Tasks |-> <<>>]
    /\ OnFailure = [t \in Tasks |-> TRUE]
    /\ \E tc \in 1..MaxDlThreads : dl = [t \in Tasks |-> NewDl(tc)]

NextDl ==
    \/ \E t \in Tasks : Enqueue(t)
    \/ DispRecv
    \/ DispAdmit
    \/ DispSpawn
    \/ \E t \in Tasks : CountInc(t)
    \/ \E t \in Tasks : DlBegin(t)
    \/ \E t \in Tasks, resp \in Responses(DlLengths) : InitProbe(t, resp)
    \/ \E t \in Tasks, o \in {"fs", "read", "ok"} : CopyStream(t, o)
    \/ \E t \in Tasks : PartitionStep(t)
    \/ \E t \in Tasks, o \in {"fs", "transport", "read", "ok"} :
           SingleThreadDownload(t, o)
    \/ \E t \in Tasks, i \in SegIds, o \in {"fs", "transport", "status", "ok"} :
           SegStart(t, i, o)
    \/ \E t \in Tasks, i \in SegIds, k \in ReadKinds \ {"part"},
          e \in ReadErrors, w \in BOOLEAN : SegRead(t, i, k, e, w)
    \/ \E t \in Tasks, i \in SegIds : LastErrTyp(t, i)
    \/ \E t \in Tasks, i \in SegIds : LastErrData(t, i)
    \/ \E t \in Tasks : DlJoin(t)
    \/ \E t \in Tasks : OnError(t)
    \/ \E t \in Tasks : CheckFinalPath(t)
    \/ \E t \in Tasks : Release(t)

SpecDl == InitDl /\ [][NextDl]_vars

\* Download has just called initDownload with ThreadCount 2..MaxDlThreads.
InitBlocks ==
    /\ Limit = MaxLimit
    /\ ac = NewASMRClient(0)
    /\ lim = NoReads(SpeedLimit)
    /\ Count = 1
    /\ wg = 1
    /\ TaskQueue = <<>>
    /\ total = 1
    /\ enqueued = 1
    /\ disp = [pc |-> "recv", t |-> 0]
    /\ pc = [t \in Tasks |-> IF t = 1 THEN "download" ELSE "new"]
    /\ FinalPath = [t \in Tasks |-> <<>>]
    /\ OnFailure = [t \in Tasks |-> TRUE]
    /\ dlErr = [t \in Tasks |-> Nil]
    /\ files = {}
    /\ hookCalls = [t \in Tasks |-> <<>>]
    /\ gate = [t \in Tasks |-> NoGate]
    /\ reloc = [t \in Tasks |-> Nil]
    /\ \E tc \in 2..MaxDlThreads :
           dl = [t \in Tasks |->
                   IF t = 1 THEN [NewDl(tc) EXCEPT !.dpc = "probe"] ELSE NewDl(tc)]

\* The concurrent downloadBlocks calls of one Download, each up to its
\* return, with reads of every size.
NextBlocks ==
    \/ \E t \in Tasks, resp \in [status : {206}, len : DlLengths \ {1000}] :
           InitProbe(t, resp)
    \/ \E t \in Tasks : PartitionStep(t)
    \/ \E t \in Tasks, i \in SegIds, o \in {"fs", "transport", "status", "ok"} :
           SegStart(t, i, o)
    \/ \E t \in Tasks, i \in SegIds, k \in ReadKinds, e \in ReadErrors,
          w \in BOOLEAN : SegRead(t, i, k, e, w)

SpecBlocks == InitBlocks /\ [][NextBlocks]_vars

\* Fair scheduling of the executor goroutine of a task whose download failed:
\* its error branch and its deferred release are always runnable.
SpecTaskFair ==
    SpecTask /\ \A t \in Tasks : WF_vars(OnError(t)) /\ WF_vars(Release(t))

\* The pool with tasks as NewDownloader builds them (FinalPath ""): after a
\* nil Download the executor goes straight to its deferred release.
InitPlain ==
    /\ InitPool
    /\ total = NumTasks
    /\ FinalPath = [t \in Tasks |-> FinalPathOf(t, "empty")]
    /\ OnFailure = [t \in Tasks |-> TRUE]
    /\ dl = [t \in Tasks |-> NewDl(MaxThreads)]

NextPool ==
    \/ \E t \in Tasks : Enqueue(t)
    \/ DispRecv
    \/ DispAdmit
    \/ DispSpawn
    \/ \E t \in Tasks : CountInc(t)
    \/ \E t \in Tasks, e \in DownloadErrors \cup {Nil}, c \in BOOLEAN :
           Download(t, e, c)
    \/ \E t \in Tasks : OnError(t)
    \/ \E t \in Tasks : CheckFinalPath(t)
    \/ \E t \in Tasks : Release(t)

SpecPool == InitPlain /\ [][NextPool]_vars

\* Fair scheduling of the pool: the dispatcher and every executor goroutine
\* keep running and every Download returns, so every running task completes.
SpecPoolFair ==
    /\ SpecPool
    /\ WF_vars(DispRecv)
    /\ WF_vars(DispAdmit)
    /\ WF_vars(DispSpawn)
    /\ \A t \in Tasks :
           /\ WF_vars(CountInc(t))
           /\ WF_vars(\E e \in DownloadErrors \cup {Nil}, c \in BOOLEAN :
                          Download(t, e, c))
           /\ WF_vars(OnError(t))
           /\ WF_vars(CheckFinalPath(t))
           /\ WF_vars(Release(t))

\* Fair scheduling of the executor goroutine of a task once its Download has
\* returned: every statement after it but the gate loops is always runnable.
SpecTaskLive ==
    /\ SpecTask
    /\ \A t \in Tasks :
           /\ WF_vars(OnError(t))
           /\ WF_vars(CheckFinalPath(t))
           /\ WF_vars(\E o \in RelocOutcomes : Relocate(t, o))
           /\ WF_vars(Release(t))

\* ---- the limiter and the ledger on their own ----

\* A pool nothing has been sent to.
IdlePool ==
    /\ Limit = MaxLimit
    /\ Count = 0
    /\ wg = 0
    /\ TaskQueue = <<>>
    /\ total = 0
    /\ enqueued = 0
    /\ disp = [pc |-> "recv", t |-> 0]
    /\ pc = [t \in Tasks |-> "new"]
    /\ FinalPath = [t \in Tasks |-> <<>>]
    /\ OnFailure = [t \in Tasks |-> TRUE]
    /\ dlErr = [t \in Tasks |-> Nil]
    /\ files = {}
    /\ hookCalls = [t \in Tasks |-> <<>>]
    /\ gate = [t \in Tasks |-> NoGate]
    /\ reloc = [t \in Tasks |-> Nil]
    /\ dl = [t \in Tasks |-> NewDl(MaxThreads)]

\* Concurrent streams under one value of SpeedLimit.
InitLimiter ==
    /\ IdlePool
    /\ ac = NewASMRClient(0)
    /\ \E limit \in SpeedLimits : lim = NoReads(limit)

NextLimiter ==
    \/ \E s \in Streams, n \in ReadCounts, e \in ReadTimes : LimRead(s, n, e)
    \/ \E s \in Streams, x \in Oversleep : LimWake(s, x)
    \/ \E s \in Streams : LimReturn(s)

SpecLimiter == InitLimiter /\ [][NextLimiter]_vars

\* A new client with the configured retry limit.
InitRetry ==
    /\ IdlePool
    /\ \E maxRetry \in 0..MaxRetries : ac = NewASMRClient(maxRetry)
    /\ lim = NoReads(SpeedLimit)

NextRetry ==
    \/ \E f \in Tasks, o \in InternalOutcomes : DownloadFile(f, o)
    \/ \E d \in ac.inPool : DownloadSucceeds(d)
    \/ \E d \in ac.inPool : OnFailureHook(d)
    \/ RetryBegin
    \/ \E o \in InternalOutcomes : RetryStep(o)
    \/ RetryEnd

SpecRetry == InitRetry /\ [][NextRetry]_vars


\* ================================================================== claims
\* Download has returned to the executor of task t.
Returned(t) ==
    pc[t] \in {"returned", "gate", "gate_sleep", "wait_sleep", "wait",
               "relocate", "exit", "done"}

GateRegion == {"gate", "gate_sleep", "wait_sleep", "wait"}

\* C1: in every reachable state the active count Count is at most Limit.
C1_CountWithinLimit == Count <= Limit

\* C2: in segmented mode a segment goroutine returns nil only when its
\* BeginOffset has passed its EndOffset, and a Download in which a segment
\* stopped short (body ended with BeginOffset <= EndOffset) returns an error.
C2_ShortReadFails ==
    \A t \in Tasks :
        /\ \A i \in DOMAIN dl[t].seg :
               (dl[t].seg[i].pc = "done" /\ dl[t].seg[i].err = Nil)
                   => dl[t].Blocks[i].BeginOffset > dl[t].Blocks[i].EndOffset
        /\ (Returned(t) /\ \E i \in DOMAIN dl[t].seg :
                dl[t].Blocks[i].BeginOffset <= dl[t].Blocks[i].EndOffset)
               => dlErr[t] # Nil

\* C3: when initDownload returns nil after a 206 probe with contentLength
\* above 1 MiB and ThreadCount >= 2, Blocks starts at 0, every block starts
\* one byte after the previous one ends, no block is empty, and the last
\* block ends at contentLength - 1.
C3_Partition ==
    \A t \in Tasks :
        dl[t].dpc = "segments" =>
            LET B == dl[t].Blocks
            IN  /\ dl[t].contentLength > 1048576
                /\ dl[t].ThreadCount >= 2
                /\ Len(B) >= 1
                /\ B[1].BeginOffset = 0
                /\ \A i \in 2..Len(B) : B[i].BeginOffset = B[i - 1].EndOffset + 1
                /\ \A i \in 1..Len(B) : B[i].BeginOffset <= B[i].EndOffset
                /\ B[Len(B)].EndOffset = dl[t].contentLength - 1

C3_Witness ==
    \E t \in Tasks :
        /\ dl[t].dpc = "segments"
        /\ dl[t].contentLength = 1048599
        /\ dl[t].ThreadCount = 3

\* C4: the partition never holds more than ThreadCount blocks, and for
\* contentLength 10,000,000 with ThreadCount 4 it is exactly
\* [0,2499989] [2499990,4999979] [4999980,7499969] [7499970,9999999].
C4_AtMostThreadCount ==
    \A t \in Tasks :
        dl[t].dpc = "segments" =>
            /\ Len(dl[t].Blocks) <= dl[t].ThreadCount
            /\ (dl[t].contentLength = 10000000 /\ dl[t].ThreadCount = 4) =>
                   [i \in 1..Len(dl[t].Blocks) |->
                       <<dl[t].Blocks[i].BeginOffset, dl[t].Blocks[i].EndOffset>>]
                     = << <<0, 2499989>>, <<2499990, 4999979>>,
                          <<4999980, 7499969>>, <<7499970, 9999999>> >>

\* C5: after a probe answered with status 200 (ThreadCount >= 2) Download
\* returns nil with no blocks, the hook is not called, and the body was
\* copied into the destination by exactly one stream copy.
C5_SingleCopy ==
    \A t \in Tasks :
        (Returned(t) /\ dl[t].status = 200 /\ dlErr[t] = Nil) =>
            /\ dl[t].Blocks = <<>>
            /\ hookCalls[t] = <<>>
            /\ dl[t].copies = 1

\* The 206 probe of task t reported a length that is not split.
Unsplit(t) ==
    /\ dl[t].status = 206
    /\ dl[t].dpc # "probe"
    /\ \/ dl[t].contentLength <= 1048576
       \/ dl[t].blockSize = dl[t].contentLength

\* C6 (as stated): after a 206 probe with contentLength <= 1 MiB, or with a
\* block size equal to contentLength, initDownload leaves exactly one block,
\* [0, contentLength - 1].
C6_OneSegment ==
    \A t \in Tasks :
        (Unsplit(t) /\ dl[t].dpc # "copy") =>
            /\ Len(dl[t].Blocks) = 1
            /\ dl[t].Blocks[1].BeginOffset = 0
            /\ dl[t].Blocks[1].EndOffset = dl[t].contentLength - 1

\* C6 (amended): in that case no block is ever produced and no segment
\* goroutine is started; initDownload streams the body itself (copyStream)
\* and returns the fallback signal after exactly one copy, or the error of
\* the copy.
C6_NoSegment ==
    \A t \in Tasks :
        Unsplit(t) =>
            /\ dl[t].Blocks = <<>>
            /\ dl[t].seg = <<>>
            /\ dl[t].dpc \in {"copy", "single", "ret"}
            /\ dl[t].dpc # "copy" =>
                   /\ dl[t].initErr \in {ErrUnsupportedMultiThreading, "fs", "read"}
                   /\ dl[t].initErr = ErrUnsupportedMultiThreading
                        <=> dl[t].dpc = "single"
                   /\ dl[t].dpc = "single" => dl[t].copies = 1

C6_Witness ==
    \E t \in Tasks :
        /\ Unsplit(t)
        /\ dl[t].contentLength = 1048576
        /\ dl[t].dpc = "single"

\* C7: a task is in the waiting loop only after a first good reading above
\* the pause threshold; the move starts right after the first good reading
\* (no sleep, no further reading) iff that reading is not above the pause
\* threshold, and otherwise only after a sleep and a last good reading
\* strictly below the resume threshold.
C7_Gate ==
    \A t \in Tasks :
        LET g == gate[t]
            high == UsageGt(g.first.usage, RclonePauseThreshold)
        IN  /\ pc[t] \in {"gate", "gate_sleep"} => g.first.err
            /\ pc[t] \in {"wait_sleep", "wait"} => ~g.first.err /\ high
            /\ (pc[t] = "relocate" \/ (pc[t] = "exit" /\ reloc[t] # Nil)) =>
                   /\ ~g.first.err
                   /\ ~high => (g.last = g.first /\ ~g.slept)
                   /\ high => /\ g.slept
                              /\ ~g.last.err
                              /\ UsageLt(g.last.usage, RcloneResumeThreshold)

C7_Witness ==
    \E t \in Tasks :
        /\ pc[t] = "relocate"
        /\ gate[t].first.usage = Bytes(18, 1)
        /\ gate[t].last.usage = Bytes(14, GiB - 1)
        /\ gate[t].slept

\* C8: a task whose Download returned an error calls the hook at most once,
\* exactly once with (Url, SavePath, FileName, err) when the hook is set; its
\* staging file is deleted; it never probes the cache nor relocates; and it
\* releases its slot: it reaches done, by a step that decrements Count and
\* the join counter.
C8_State ==
    \A t \in Tasks :
        /\ Len(hookCalls[t]) <= 1
        /\ hookCalls[t] # <<>> => dlErr[t] # Nil
        /\ dlErr[t] # Nil =>
               /\ pc[t] \in {"returned", "exit", "done"}
               /\ gate[t] = NoGate
               /\ reloc[t] = Nil
               /\ FinalPath[t] \notin files \/ FinalPath[t] = FullPath(t)
        /\ (dlErr[t] # Nil /\ pc[t] \in {"exit", "done"}) =>
               /\ FullPath(t) \notin files
               /\ hookCalls[t] =
                      IF OnFailure[t]
                        THEN << <<Url(t), SavePath(t), FileName(t), dlErr[t]>> >>
                        ELSE <<>>

C8_Step ==
    \A t \in Tasks :
        (pc[t] = "exit" /\ pc'[t] # "exit") =>
            /\ pc'[t] = "done"
            /\ Count' = Count - 1
            /\ wg' = wg - 1

C8_FailedTask ==
    /\ []C8_State
    /\ [][C8_Step]_vars
    /\ \A t \in Tasks : (dlErr[t] # Nil) ~> (pc[t] = "done")

C8_Witness ==
    \E t \in Tasks :
        /\ pc[t] = "done"
        /\ dlErr[t] = "transport"
        /\ OnFailure[t]
        /\ Len(hookCalls[t]) = 1
        /\ Count = 0

\* C9: while the latest cache probe of a task is a failed one, in the first
\* check or in the waiting loop, the task is still inside the loops, the hook
\* has not been called, the staging file is still there and no move was
\* skipped; the sleep leads to another probe, and the loops are left only
\* towards the move.
C9_State ==
    \A t \in Tasks :
        gate[t].lastWasErr =>
            /\ pc[t] \in GateRegion
            /\ hookCalls[t] = <<>>
            /\ FullPath(t) \in files
            /\ reloc[t] = Nil

C9_Step ==
    \A t \in Tasks :
        /\ (pc[t] = "gate_sleep" /\ pc'[t] # pc[t]) => pc'[t] = "gate"
        /\ (pc[t] = "wait_sleep" /\ pc'[t] # pc[t]) => pc'[t] = "wait"
        /\ pc[t] \in GateRegion =>
               /\ pc'[t] \in GateRegion \cup {"relocate"}
               /\ hookCalls'[t] = hookCalls[t]
               /\ FullPath(t) \in files'

C9_ProbeErrorOnlyDelays == []C9_State /\ [][C9_Step]_vars

C9_Witness ==
    \E t \in Tasks :
        /\ gate[t].lastWasErr
        /\ pc[t] = "wait_sleep"
        /\ gate[t].slept

\* C10: once Download returned nil the staging file is missing only if the
\* copy to FinalPath ended without error (and then the final file exists);
\* after a failed MkdirAll, Open, Create or Copy the staging file is still
\* there; the hook is never called for such a task.
C10_StagingKept ==
    \A t \in Tasks :
        (Returned(t) /\ dlErr[t] = Nil) =>
            /\ FullPath(t) \notin files =>
                   (reloc[t] = "ok" /\ FinalPath[t] \in files)
            /\ reloc[t] \in (RelocOutcomes \ {"ok"}) => FullPath(t) \in files
            /\ hookCalls[t] = <<>>

C10_Witness ==
    \E t \in Tasks :
        /\ pc[t] = "done"
        /\ reloc[t] = "copy_err"
        /\ FullPath(t) \in files
        /\ FinalPath[t] \in files

\* The dispatcher has passed task t through the capacity check (wp.Add(1)).
Admitted(t) == pc[t] \notin {"new", "queued", "held"}

\* The dispatcher has executed the go statement for task t.
Launched(t) == pc[t] \notin {"new", "queued", "held", "admitted"}

\* C11: tasks are sent on TaskQueue in the order 1, 2, ...; whenever a task
\* has passed the capacity check, every task sent before it has already been
\* launched, and whenever a task is still in the channel, every task sent
\* before it has left the channel.  (Completion order is free: see witness.)
C11_FifoAdmission ==
    \A a \in Tasks, b \in Tasks :
        a < b =>
            /\ Admitted(b) => Launched(a)
            /\ pc[b] = "held" => Admitted(a)

\* The task sent second has completed while the first is still downloading.
C11_Witness ==
    /\ pc[1] = "download"
    /\ pc[2] = "done"

\* Some task has failed.
SomeFailed == \E f \in Tasks : dlErr[f] # Nil

\* Every task sent so far has been admitted and its Download has returned.
AllSentHaveRun == \A t \in Tasks : t <= enqueued => Returned(t)

\* C12: once some task has failed, the pool again and again reaches a state
\* in which every task sent so far (before or after the failure) has been
\* admitted and has run its Download, and a dispatcher waiting on the
\* condition variable is eventually woken and launches the task it holds
\* (fair scheduling, every running task completes).
C12_PoolSurvivesFailure ==
    /\ SomeFailed ~> AllSentHaveRun
    /\ (disp.pc = "wait") ~> (disp.pc = "spawn")

\* With one slot, the first task failed and is done, the second has run.
C12_Witness ==
    /\ Limit = 1
    /\ dlErr[1] # Nil
    /\ pc[1] = "done"
    /\ hookCalls[1] # <<>>
    /\ pc[2] = "returned"

\* C13: once tasks have been sent, whenever the counter of the embedded
\* WaitGroup is zero (Wait would return) every task sent so far has completed:
\* none is in the channel, in the dispatcher's hands, admitted or running.
C13_DrainDetected ==
    (enqueued > 0 /\ wg = 0) =>
        \A t \in Tasks : t <= enqueued => pc[t] = "done"

\* The executor of task t is between its wp.Count++ and its deferred wp.Count--.
Counted(t) ==
    pc[t] \in {"download", "returned", "gate", "gate_sleep", "wait_sleep",
               "wait", "relocate", "exit"}

\* Task t is between the dispatcher's wp.Add(1) and its deferred wp.Done().
InBarrier(t) == pc[t] \in {"admitted", "started"} \/ Counted(t)

\* C14: Count is never negative and equals the number of executors that have
\* incremented it and not yet decremented it; the barrier counter equals the
\* number of admitted tasks that are not done; both are 0 once every admitted
\* task is done.
C14_State ==
    /\ Count >= 0
    /\ Count = Cardinality({t \in Tasks : Counted(t)})
    /\ wg = Cardinality({t \in Tasks : InBarrier(t)})
    /\ (\A t \in Tasks : Admitted(t) => pc[t] = "done") => (Count = 0 /\ wg = 0)

\* C14 (steps): Count goes up by one exactly in the step that starts an
\* executor, Count and the barrier counter go down by one exactly in the step
\* that completes a task, whatever path led it to its exit (failed download,
\* relocation done or failed, nothing to move), and a done task never moves
\* again.
C14_Step ==
    /\ \A t \in Tasks :
           /\ (pc[t] = "started" /\ pc'[t] # "started") =>
                  (pc'[t] = "download" /\ Count' = Count + 1 /\ wg' = wg)
           /\ (pc[t] # "done" /\ pc'[t] = "done") =>
                  (pc[t] = "exit" /\ Count' = Count - 1 /\ wg' = wg - 1)
           /\ (pc[t] = "exit" /\ pc'[t] # "exit") => pc'[t] = "done"
           /\ pc[t] = "done" => pc'[t] = "done"
    /\ Count' > Count => \E t \in Tasks : pc[t] = "started" /\ pc'[t] = "download"
    /\ Count' < Count => \E t \in Tasks : pc[t] = "exit" /\ pc'[t] = "done"
    /\ wg' < wg => \E t \in Tasks : pc[t] = "exit" /\ pc'[t] = "done"
    /\ wg' > wg =>
           (wg' = wg + 1 /\ \E t \in Tasks : pc[t] = "held" /\ pc'[t] = "admitted")

C14_OneIncOneDec == []C14_State /\ [][C14_Step]_vars

\* A task whose relocation failed at Create has completed and given back
\* its slot.
C14_Witness ==
    \E t \in Tasks :
        /\ pc[t] = "done"
        /\ reloc[t] = "create_err"
        /\ Count = 0
        /\ wg = 0

\* Segment goroutines of task t that have not ended.
RunningSegs(t) == {i \in DOMAIN dl[t].seg : dl[t].seg[i].pc # "done"}

\* C15: while any segment goroutine of a task has not ended, Download has
\* not returned to the executor: the task is still in its Download call, it
\* has no result yet, the hook has not been called, no cache probe was made
\* and no relocation was attempted.
C15_JoinBeforeReturn ==
    \A t \in Tasks :
        RunningSegs(t) # {} =>
            /\ pc[t] = "download"
            /\ dl[t].dpc = "segments"
            /\ dlErr[t] = Nil
            /\ hookCalls[t] = <<>>
            /\ gate[t] = NoGate
            /\ reloc[t] = Nil

\* Download has returned after three or more segments, the last one failed
\* and an earlier one succeeded.
C15_Witness ==
    \E t \in Tasks :
        /\ Returned(t)
        /\ Len(dl[t].seg) >= 3
        /\ RunningSegs(t) = {}
        /\ dl[t].seg[1].err = Nil
        /\ dl[t].seg[Len(dl[t].seg)].err # Nil

\* C16: once lastErr holds the error of a failed segment, no later step
\* changes it, so that Download returns the error that was recorded first.
C16_Step ==
    \A t \in Tasks :
        (dl[t].lastErr.typ # Nil /\ dl[t].lastErr.typ = dl[t].lastErr.data)
            => dl'[t].lastErr = dl[t].lastErr

C16_FirstErrorWins == [][C16_Step]_vars

\* C17: whenever the dispatcher is about to test Count >= Limit, Count is at
\* least the number of admitted tasks that have not completed, and the
\* number of launched tasks that have not completed never exceeds Limit.
C17_AtomicAdmission ==
    /\ disp.pc = "lock" => Count >= Cardinality({t \in Tasks : InBarrier(t)})
    /\ Cardinality({t \in Tasks : Launched(t) /\ pc[t] # "done"}) <= Limit

\* C18: when a segmented Download has returned, its result is non-nil iff
\* some segment's downloadBlocks returned an error, and a non-nil result is
\* the error one of the segments returned.
C18_ErrorIff ==
    \A t \in Tasks :
        (Returned(t) /\ dl[t].seg # <<>>) =>
            /\ dlErr[t] # Nil <=> \E i \in DOMAIN dl[t].seg : dl[t].seg[i].err # Nil
            /\ dlErr[t] # Nil => \E i \in DOMAIN dl[t].seg : dl[t].seg[i].err = dlErr[t]

\* C19: for every segment, BeginOffset <= EndOffset + 1, EndOffset is the end
\* the block started with, the bytes written never exceed the length the
\* block started with, and BeginOffset and DownloadedSize have advanced by
\* exactly the bytes written.
C19_State ==
    \A t \in Tasks : \A i \in DOMAIN dl[t].seg :
        LET b == dl[t].Blocks[i]
            g == dl[t].seg[i]
        IN  /\ b.BeginOffset <= b.EndOffset + 1
            /\ b.EndOffset = g.hi
            /\ g.wrote >= 0
            /\ g.wrote <= g.hi - g.lo + 1
            /\ b.BeginOffset = g.lo + g.wrote
            /\ b.DownloadedSize = g.wrote

\* C19 (steps): BeginOffset never decreases, and in every step BeginOffset and
\* DownloadedSize grow by the number of bytes written in that step, whatever
\* the size of the chunk that was read.
C19_Step ==
    \A t \in Tasks : \A i \in DOMAIN dl[t].seg :
        i \in DOMAIN dl'[t].seg =>
            LET b == dl[t].Blocks[i]
                b2 == dl'[t].Blocks[i]
                k == dl'[t].seg[i].wrote - dl[t].seg[i].wrote
            IN  /\ b2.BeginOffset >= b.BeginOffset
                /\ k >= 0
                /\ b2.BeginOffset = b.BeginOffset + k
                /\ b2.DownloadedSize = b.DownloadedSize + k

C19_ClippedAdvance == []C19_State /\ [][C19_Step]_vars

\* A segment that does not start at offset 0 has written its whole range.
C19_Witness ==
    \E t \in Tasks : \E i \in DOMAIN dl[t].seg :
        /\ dl[t].seg[i].pc = "done"
        /\ dl[t].seg[i].lo > 0
        /\ dl[t].seg[i].wrote = dl[t].seg[i].hi - dl[t].seg[i].lo + 1
        /\ dl[t].Blocks[i].BeginOffset = dl[t].Blocks[i].EndOffset + 1

\* Writer g has written the offsets seek .. seek + wrote - 1 (none if it has
\* not written); two writers have no written offset in common.
NoCommonOffset(g, h) ==
    \/ g.wrote = 0
    \/ h.wrote = 0
    \/ g.seek + g.wrote - 1 < h.seek
    \/ h.seek + h.wrote - 1 < g.seek

\* C20: a segment writer writes only after it has positioned its handle at
\* the start of its own block, every offset it has written lies inside the
\* range the block started with, the ranges of different blocks are
\* disjoint, and no offset has been written by two writers.
C20_State ==
    \A t \in Tasks : \A i \in DOMAIN dl[t].seg :
        LET g == dl[t].seg[i]
        IN  /\ g.seek \in {-1, g.lo}
            /\ g.wrote > 0 =>
                   /\ g.seek = g.lo
                   /\ g.seek + g.wrote - 1 <= g.hi
            /\ \A j \in DOMAIN dl[t].seg :
                   i # j =>
                       /\ g.hi < dl[t].seg[j].lo \/ dl[t].seg[j].hi < g.lo
                       /\ NoCommonOffset(g, dl[t].seg[j])

\* C20 (steps): the handle is positioned once and never again, and the
\* writer only moves forward.
C20_Step ==
    \A t \in Tasks : \A i \in DOMAIN dl[t].seg :
        i \in DOMAIN dl'[t].seg =>
            /\ dl[t].seg[i].seek # -1 => dl'[t].seg[i].seek = dl[t].seg[i].seek
            /\ dl'[t].seg[i].wrote >= dl[t].seg[i].wrote

C20_DisjointWrites == []C20_State /\ [][C20_Step]_vars

\* Three or more writers have each written their whole range.
C20_Witness ==
    \E t \in Tasks :
        /\ Len(dl[t].seg) >= 3
        /\ \A i \in DOMAIN dl[t].seg :
               /\ dl[t].seg[i].pc = "done"
               /\ dl[t].seg[i].wrote = dl[t].seg[i].hi - dl[t].seg[i].lo + 1

\* The steps one task can take, as pairs of positions of its executor.
Lifecycle ==
    { <<"new", "queued">>, <<"queued", "held">>, <<"held", "admitted">>,
      <<"admitted", "started">>, <<"started", "download">>,
      <<"download", "returned">>, <<"returned", "exit">>,
      <<"returned", "gate">>, <<"gate", "gate_sleep">>,
      <<"gate_sleep", "gate">>, <<"gate", "wait_sleep">>,
      <<"wait_sleep", "wait">>, <<"wait", "wait_sleep">>,
      <<"gate", "relocate">>, <<"wait", "relocate">>,
      <<"relocate", "exit">>, <<"exit", "done">> }

\* C21: every step of a task follows the life cycle Queued, Admitted,
\* Downloading, then Failed or Downloaded, then waiting at the gate,
\* Relocating, then Completed or RelocationFailed: a task is admitted only
\* out of the queue, downloads only once admitted and started, is at the
\* gate or relocating only if its Download returned nil, starts to relocate
\* only on a good reading that lets it pass (not above 18 GiB at the first
\* check, below 15 GiB in the waiting loop), and once it has reached its end
\* (failure handled, or relocation attempted) nothing more happens to it
\* but the release of its slot.
C21_Step ==
    \A t \in Tasks :
        /\ pc'[t] # pc[t] => <<pc[t], pc'[t]>> \in Lifecycle
        /\ pc'[t] \in GateRegion \cup {"relocate"} => dlErr'[t] = Nil
        /\ (pc'[t] = "relocate" /\ pc[t] # "relocate") =>
               /\ ~gate'[t].last.err
               /\ ~gate'[t].lastWasErr
               /\ pc[t] = "gate" => ~UsageGt(gate'[t].last.usage, Bytes(18, 0))
               /\ pc[t] = "wait" => UsageLt(gate'[t].last.usage, Bytes(15, 0))
        /\ pc[t] \in {"exit", "done"} =>
               /\ hookCalls'[t] = hookCalls[t]
               /\ dlErr'[t] = dlErr[t]
               /\ reloc'[t] = reloc[t]
               /\ (FullPath(t) \in files') = (FullPath(t) \in files)
               /\ (FinalPath[t] \in files') = (FinalPath[t] \in files)

C21_Lifecycle == [][C21_Step]_vars

\* A task that had to wait at the gate has ended with a failed relocation.
C21_Witness ==
    \E t \in Tasks :
        /\ pc[t] = "exit"
        /\ reloc[t] = "mkdir_err"
        /\ gate[t].slept

\* Task t has a FinalPath that is empty or is its staging path.
StaysInPlace(t) == FinalPath[t] = <<>> \/ FinalPath[t] = <<"tmp", t, "/", "name", t>>

\* C22: a task whose Download returned nil and whose FinalPath is empty or
\* equal to its staging path never probes the cache, never sleeps and never
\* relocates, and its staging file stays where it is.
C22_State ==
    \A t \in Tasks :
        (StaysInPlace(t) /\ Returned(t) /\ dlErr[t] = Nil) =>
            /\ pc[t] \in {"returned", "exit", "done"}
            /\ gate[t] = NoGate
            /\ reloc[t] = Nil
            /\ FullPath(t) \in files
            /\ hookCalls[t] = <<>>

\* C22 (steps): a slot is given back by the step that ends the task, and
\* every relocation, whatever its outcome, leads to that step.
C22_Step ==
    \A t \in Tasks :
        /\ (pc[t] = "relocate" /\ pc'[t] # "relocate") => pc'[t] = "exit"
        /\ (pc[t] = "exit" /\ pc'[t] # "exit") =>
               (pc'[t] = "done" /\ Count' = Count - 1 /\ wg' = wg - 1)

\* C22: such a task, and every task that has reached its relocation,
\* releases its slot.
C22_NoMoveTask ==
    /\ []C22_State
    /\ [][C22_Step]_vars
    /\ \A t \in Tasks :
           /\ (StaysInPlace(t) /\ pc[t] = "returned" /\ dlErr[t] = Nil)
                  ~> (pc[t] = "done")
           /\ (pc[t] = "relocate") ~> (pc[t] = "done")

\* A task whose FinalPath is its staging path is done, file in place.
C22_Witness ==
    \E t \in Tasks :
        /\ FinalPath[t] = FullPath(t)
        /\ pc[t] = "done"
        /\ dlErr[t] = Nil
        /\ FullPath(t) \in files
        /\ Count = 0

\* C24: after a 206 probe with contentLength above 1 MiB and ThreadCount >= 2
\* the partition loop runs with a positive block size (so that tmp grows
\* towards contentLength and the loop ends), and every block it has
\* produced has BeginOffset <= EndOffset.
C24_PartitionTerminates ==
    \A t \in Tasks :
        (/\ dl[t].dpc \in {"loop", "segments"}
         /\ dl[t].status = 206
         /\ dl[t].contentLength > 1048576
         /\ dl[t].ThreadCount >= 2) =>
            /\ dl[t].blockSize > 0
            /\ dl[t].tmp >= 0
            /\ dl[t].tmp < dl[t].contentLength
            /\ \A i \in DOMAIN dl[t].Blocks :
                   dl[t].Blocks[i].BeginOffset <= dl[t].Blocks[i].EndOffset

\* The program points from the return of Download to the end of the
\* relocation.
SlotRegion == {"returned", "relocate"} \cup GateRegion

\* The tasks blocked in the backpressure gate.
Gated == {t \in Tasks : pc[t] \in GateRegion}

\* C25: every task between the end of its download and the end of its
\* relocation is counted in Count, so Count is at least the number of tasks
\* in the gate.
C25_State ==
    /\ \A t \in Tasks : pc[t] \in SlotRegion => Counted(t)
    /\ Count >= Cardinality({t \in Tasks : pc[t] \in SlotRegion})

\* C25 (steps): a step of a task between the end of its download and the end
\* of its relocation (probing, sleeping, copying) leaves Count unchanged, and
\* while at least Limit tasks are in the gate no step admits a queued or
\* held task.
C25_Step ==
    /\ \A t \in Tasks :
           (pc[t] \in SlotRegion /\ (pc'[t] # pc[t] \/ gate'[t] # gate[t])) =>
               (Count' = Count /\ pc'[t] \in SlotRegion \cup {"exit"})
    /\ Cardinality(Gated) >= Limit =>
           \A u \in Tasks : ~Admitted(u) => ~Admitted(u)'

C25_GateKeepsSlot == []C25_State /\ [][C25_Step]_vars

\* Limit tasks are in the waiting mode of the gate after a failed or high
\* probe, and the dispatcher holds a further task and waits for a slot.
C25_Witness ==
    /\ Cardinality(Gated) = Limit
    /\ \A t \in Gated : pc[t] = "wait_sleep" /\ gate[t].slept
    /\ disp.pc = "wait"
    /\ \E u \in Tasks : pc[u] = "held"

\* n bytes at the limit in force take RateNum(n) / RateDen nanoseconds
\* (n * Second / SpeedLimit as a reduced fraction; used for a positive limit
\* only).
RateNum(n) == n * (Second \div Gcd(Second, lim.SpeedLimit))
RateDen == lim.SpeedLimit \div Gcd(Second, lim.SpeedLimit)

\* Stream s has read n > 0 bytes under a positive limit.
Limited(s) == lim.rd[s].n > 0 /\ lim.SpeedLimit > 0

C23_State ==
    \A s \in Streams :
        LET r == lim.rd[s]
        IN  /\ (r.pc = "handed" /\ Limited(s)) =>
                   (r.total + 1) * RateDen > RateNum(r.n)
            /\ r.pc = "sleep" =>
                   /\ Limited(s)
                   /\ r.sleep > 0
                   /\ (r.elapsed + r.sleep) * RateDen <= RateNum(r.n)
                   /\ (r.elapsed + r.sleep + 1) * RateDen > RateNum(r.n)
            /\ (r.pc = "handed" /\ r.slept) =>
                   (Limited(s) /\ r.total >= r.elapsed + r.sleep)
            /\ (r.pc = "handed" /\ ~r.slept) =>
                   /\ r.total = r.elapsed
                   /\ r.sleep = 0
                   /\ Limited(s) => (r.elapsed + 1) * RateDen > RateNum(r.n)
            /\ ~Limited(s) => (r.pc # "sleep" /\ ~r.slept)

\* C23 (steps): a step of one stream leaves the reads of the other streams
\* as they are, and no step writes SpeedLimit.
C23_Step ==
    /\ lim'.SpeedLimit = lim.SpeedLimit
    /\ \A s, u \in Streams :
           (s # u /\ lim'.rd[s] # lim.rd[s]) => lim'.rd[u] = lim.rd[u]

Ledger == ac.FailedTasks \o ac.tasks \o ac.permanentlyFailed

\* File f has a record that has used up its retries.
GivenUp(f) ==
    \E i \in DOMAIN Ledger :
        Ledger[i].FileName = f /\ Ledger[i].RetryCount >= ac.MaxRetry

\* A RetryFailedTasks call has returned.
RetryReturned == ac.rpc = "idle" /\ ac.ret # "none"

C26_State ==
    /\ \A d \in ac.inPool :
           /\ d.RetryCount <= ac.MaxRetry
           /\ ac.sent[d.FileName] = d.RetryCount + 1
    /\ \A i \in DOMAIN Ledger :
           /\ Ledger[i].RetryCount <= ac.MaxRetry
           /\ ac.sent[Ledger[i].FileName] = Ledger[i].RetryCount + 1
           /\ \A d \in ac.inPool : d.FileName # Ledger[i].FileName
           /\ \A j \in DOMAIN Ledger :
                  Ledger[j].FileName = Ledger[i].FileName => j = i
    /\ \A f \in Tasks : ac.sent[f] <= ac.MaxRetry + 1
    /\ ac.rpc = "idle" => (ac.tasks = <<>> /\ ac.permanentlyFailed = <<>>)
    /\ RetryReturned =>
           /\ ac.ret = "true" <=> ac.below > 0
           /\ ac.requeued <= ac.below

\* C26 (steps): a send of file f is the first one, made by DownloadFile, or
\* is made by RetryFailedTasks for the record at the head of its copy, whose
\* RetryCount is below MaxRetry, and carries that RetryCount plus one; a
\* record that has used up its retries stays in the ledger and its file is
\* never sent again.
C26_Step ==
    \A f \in Tasks :
        /\ ac'.sent[f] # ac.sent[f] =>
               /\ ac'.sent[f] = ac.sent[f] + 1
               /\ \/ /\ ac.rpc = "idle"
                     /\ f \notin ac.called
                     /\ [FileName |-> f, RetryCount |-> 0] \in ac'.inPool
                  \/ /\ ac.rpc = "loop"
                     /\ ac.tasks # <<>>
                     /\ Head(ac.tasks).FileName = f
                     /\ Head(ac.tasks).RetryCount < ac.MaxRetry
                     /\ [FileName |-> f,
                         RetryCount |-> Head(ac.tasks).RetryCount + 1]
                            \in ac'.inPool
        /\ GivenUp(f) => (GivenUp(f)' /\ ac'.sent[f] = ac.sent[f])

====
